---- MODULE Spec2Model ----
(***************************************************************************)
(* Model of the test-pipeline generator front end:                         *)
(*   frontend/src/components/RepositoryForm.jsx  (the intake form)         *)
(*   frontend/src/App.jsx                        (the coordinator)         *)
(*                                                                         *)
(* An async handler is two steps: the synchronous part up to               *)
(* `await axios.post(...)`, and the continuation that runs when the        *)
(* promise settles.  Handler runs suspended at the await are kept in        *)
(* `pending`, in the order they were started.  Every handler run writes    *)
(* the observer calls and the request it makes into a log; `last` is the   *)
(* handler step that ran last, with the log of its run so far.             *)
(***************************************************************************)
EXTENDS Integers, Sequences, FiniteSets, TLC

(***************************************************************************)
(* Bounds                                                                  *)
(***************************************************************************)
\* requests that may be outstanding at the same time
MaxPending == 2
\* stages of a pipeline document
MaxStages == 2
\* commands, tools and recommendations of a document
MaxItems == 2
\* length of the type tags built from the alphabet
MaxTypeLen == 2

(***************************************************************************)
(* JavaScript values: a type tag and a payload.                            *)
(***************************************************************************)
Null == [t |-> "null", v |-> ""]
Undefined == [t |-> "undefined", v |-> ""]
Str(s) == [t |-> "string", v |-> s]
Bool(b) == [t |-> "boolean", v |-> IF b THEN "true" ELSE "false"]
Obj(id) == [t |-> "object", v |-> id]
Arr(items) == [t |-> "array", v |-> items]
Fn(name) == [t |-> "function", v |-> name]
Element(id) == [t |-> "element", v |-> id]

\* ToBoolean of the language: what `!x`, `x || y` and `x && y` test
Truthy(x) ==
    CASE x.t = "string" -> x.v # ""
      [] x.t = "boolean" -> x.v = "true"
      [] x.t \in {"object", "array", "function", "element"} -> TRUE
      [] OTHER -> FALSE

\* a || b
Or(a, b) == IF Truthy(a) THEN a ELSE b

(***************************************************************************)
(* Inputs                                                                  *)
(***************************************************************************)
FieldNames == {"repository_url", "repository_content", "language", "framework"}

\* what the user can type into each field (e.target.value is a string)
FieldValues(name) ==
    CASE name = "repository_url" -> {"", " ", "u"}
      [] name = "repository_content" -> {"", " ", "c"}
      [] name = "language" -> {"", "py"}
      [] name = "framework" -> {"", "dj"}

\* response.data of POST /api/generate-pipeline
PipelineDocs == {Obj("P1"), Obj("P2")}

\* response.data of POST /api/analyze-repository
AnalysisResults ==
    [language : {Undefined, Str(""), Str("py")},
     framework : {Undefined, Str(""), Str("dj")}]

\* what axios.post rejects with: response is absent, present without a
\* body, or present with a body whose detail and message are optional
Rejections ==
    [response : {"absent", "nodata"}, detail : {Undefined},
     message : {Undefined, Str(""), Str("Network Error")}]
    \cup
    [response : {"data"}, detail : {Undefined, Str(""), Str("Not Found")},
     message : {Undefined, Str(""), Str("Network Error")}]

(***************************************************************************)
(* State                                                                   *)
(***************************************************************************)
VARIABLES
    formData,   \* RepositoryForm: useState({repository_url, ...})
    pipeline,   \* App: useState(null)
    loading,    \* App: useState(false)
    error,      \* App: useState(null)
    pending,    \* handler runs suspended at `await axios.post`, in start order
    last,       \* the handler step that ran last
    view        \* what the component under study returned from its last render

vars == <<formData, pipeline, loading, error, pending, last, view>>

\* one entry of a handler's log: an observer call, a POST, or a setFormData
Event(ev, val) == [ev |-> ev, val |-> val]

(***************************************************************************)
(* App.jsx: the three observers, as functions of the coordinator's state   *)
(***************************************************************************)
AppState == [pipeline |-> pipeline, loading |-> loading, error |-> error]

\* variant: a new pipeline leaves the displayed error in place
handlePipelineGenerated_keepsError(app, pipelineData) ==
    [app EXCEPT !.pipeline = pipelineData]

handlePipelineGenerated(app, pipelineData) ==
    [app EXCEPT !.pipeline = pipelineData, !.error = Null]

\* variant: only a message clears the pipeline, a null notification does not
handleError_nullKeepsPipeline(app, errorMessage) ==
    IF errorMessage = Null
    THEN [app EXCEPT !.error = Null]
    ELSE [app EXCEPT !.error = errorMessage, !.pipeline = Null]

\* variant: an error leaves the displayed pipeline in place
handleError_keepsPipeline(app, errorMessage) ==
    [app EXCEPT !.error = errorMessage]

handleError(app, errorMessage) ==
    [app EXCEPT !.error = errorMessage, !.pipeline = Null]

handleLoadingChange(app, isLoading) ==
    [app EXCEPT !.loading = isLoading]

\* apply a handler's observer calls, in order, to the coordinator's state
RECURSIVE Notify(_, _)
Notify(app, log) ==
    IF log = <<>> THEN app
    ELSE LET e == Head(log)
             next == CASE e.ev = "pipeline" -> handlePipelineGenerated(app, e.val)
                       [] e.ev = "error" -> handleError(app, e.val)
                       [] e.ev = "loading" -> handleLoadingChange(app, e.val)
                       [] OTHER -> app
         IN Notify(next, Tail(log))

\* a slot of the display tree that renders nothing
Hidden == [t |-> "hidden", v |-> ""]

\* variant: the visualizer is mounted whenever there is a pipeline
AppRender_ignoresLoading(app) ==
    [loadingCard |-> Truthy(app.loading),
     errorMessage |-> IF Truthy(app.error) THEN app.error ELSE Hidden,
     visualizer |-> IF Truthy(app.pipeline) THEN app.pipeline ELSE Hidden]

\* what App returns: the loading card, the error message, and the
\* PipelineVisualizer with the pipeline prop it is given
AppRender(app) ==
    [loadingCard |-> Truthy(app.loading),
     errorMessage |-> IF Truthy(app.error) THEN app.error ELSE Hidden,
     visualizer |-> IF Truthy(app.pipeline) /\ ~Truthy(app.loading)
                    THEN app.pipeline ELSE Hidden]

\* the state setters, followed by the render they schedule
SetApp(app) ==
    /\ pipeline' = app.pipeline
    /\ loading' = app.loading
    /\ error' = app.error
    /\ view' = AppRender(app)

(***************************************************************************)
(* RepositoryForm.jsx                                                      *)
(***************************************************************************)
GenerateUrl == "/api/generate-pipeline"
AnalyzeUrl == "/api/analyze-repository"
GenerateValidationMessage == "Please provide either a repository URL or code content"
AnalyzeValidationMessage == "Please provide either a repository URL or code content to analyze"
GenerateFallback == "Failed to generate pipeline"
AnalyzeFallback == "Failed to analyze repository"

InitialFormData ==
    [repository_url |-> "", repository_content |-> "", language |-> "", framework |-> ""]

\* !formData.repository_url && !formData.repository_content
MissingInput(fd) ==
    /\ ~Truthy(Str(fd.repository_url))
    /\ ~Truthy(Str(fd.repository_content))

\* err.response?.data?.detail
ResponseDetail(err) == IF err.response = "data" THEN err.detail ELSE Undefined

\* a ?? b
Nullish(a, b) == IF a.t \in {"null", "undefined"} THEN b ELSE a

\* variant: the transport message is consulted before the server's detail
ErrorMessage_messageFirst(err, fallback) ==
    Or(Or(err.message, ResponseDetail(err)), Str(fallback))

\* variant: ?? in place of ||, so an empty string is not skipped
ErrorMessage_nullish(err, fallback) ==
    Nullish(Nullish(ResponseDetail(err), err.message), Str(fallback))

\* err.response?.data?.detail || err.message || fallback
ErrorMessage(err, fallback) ==
    Or(Or(ResponseDetail(err), err.message), Str(fallback))

\* response.data.language || ''   (and the same for framework)
OrEmpty(x) == Or(x, Str("")).v

\* remove the i-th suspended run
Remove(s, i) == SubSeq(s, 1, i - 1) \o SubSeq(s, i + 1, Len(s))

NoBody == InitialFormData
NoData == Undefined
NoAnalysis == [language |-> Undefined, framework |-> Undefined]
NoRejection == [response |-> "absent", detail |-> Undefined, message |-> Undefined]

\* a handler step: which handler, how far its run got (edited, invalid,
\* posted, resolved, rejected), what it sent or received, the run's log,
\* and the coordinator's state the step found
Step(op, outcome, body, data, analysis, err, log) ==
    [op |-> op, outcome |-> outcome, body |-> body, data |-> data,
     analysis |-> analysis, err |-> err, log |-> log, before |-> AppState]

\* handleChange: setFormData(prev => ({...prev, [name]: value}))
handleChange(name, value) ==
    /\ formData' = [formData EXCEPT ![name] = value]
    /\ last' = Step("handleChange", "edited", NoBody, NoData, NoAnalysis, NoRejection, <<>>)
    /\ UNCHANGED <<pipeline, loading, error, pending, view>>

\* variant: the POST carries the initial form state, not the current one
Start_staleBody(op, url, validationMessage) ==
    IF MissingInput(formData)
    THEN LET log == <<Event("error", Str(validationMessage))>>
         IN /\ SetApp(Notify(AppState, log))
            /\ last' = Step(op, "invalid", NoBody, NoData, NoAnalysis, NoRejection, log)
            /\ UNCHANGED <<formData, pending>>
    ELSE LET log == <<Event("loading", Bool(TRUE)), Event("post", Str(url))>>
         IN /\ Len(pending) < MaxPending
            /\ SetApp(Notify(AppState, log))
            /\ pending' = Append(pending, [op |-> op, log |-> log])
            /\ last' = Step(op, "posted", InitialFormData, NoData, NoAnalysis, NoRejection, log)
            /\ UNCHANGED formData

\* the synchronous part of handleSubmit / handleAnalyze
Start(op, url, validationMessage) ==
    IF MissingInput(formData)
    THEN LET log == <<Event("error", Str(validationMessage))>>
         IN /\ SetApp(Notify(AppState, log))
            /\ last' = Step(op, "invalid", NoBody, NoData, NoAnalysis, NoRejection, log)
            /\ UNCHANGED <<formData, pending>>
    ELSE LET log == <<Event("loading", Bool(TRUE)), Event("post", Str(url))>>
         IN /\ Len(pending) < MaxPending
            /\ SetApp(Notify(AppState, log))
            /\ pending' = Append(pending, [op |-> op, log |-> log])
            /\ last' = Step(op, "posted", formData, NoData, NoAnalysis, NoRejection, log)
            /\ UNCHANGED formData

\* variant: the analyze message pasted into handleSubmit
handleSubmit_analyzeMessage == Start("handleSubmit", GenerateUrl, AnalyzeValidationMessage)

handleSubmit == Start("handleSubmit", GenerateUrl, GenerateValidationMessage)

\* variant: the generate message pasted into handleAnalyze
handleAnalyze_generateMessage == Start("handleAnalyze", AnalyzeUrl, GenerateValidationMessage)

handleAnalyze == Start("handleAnalyze", AnalyzeUrl, AnalyzeValidationMessage)

\* variant: a resolved generate also calls onError(null), as analyze does
GenerateResolved_clearsError(i, data) ==
    /\ i \in 1..Len(pending)
    /\ pending[i].op = "handleSubmit"
    /\ LET log == <<Event("pipeline", data), Event("error", Null),
                    Event("loading", Bool(FALSE))>>
       IN /\ SetApp(Notify(AppState, log))
          /\ last' = Step("handleSubmit", "resolved", NoBody, data, NoAnalysis,
                          NoRejection, pending[i].log \o log)
    /\ pending' = Remove(pending, i)
    /\ UNCHANGED formData

\* variant: a resolved generate resets the form
GenerateResolved_resets(i, data) ==
    /\ i \in 1..Len(pending)
    /\ pending[i].op = "handleSubmit"
    /\ LET log == <<Event("pipeline", data), Event("loading", Bool(FALSE))>>
       IN /\ SetApp(Notify(AppState, log))
          /\ last' = Step("handleSubmit", "resolved", NoBody, data, NoAnalysis,
                          NoRejection, pending[i].log \o log)
    /\ pending' = Remove(pending, i)
    /\ formData' = InitialFormData

\* variant: only the response of the request issued last is applied
GenerateResolved_latestOnly(i, data) ==
    /\ i \in 1..Len(pending)
    /\ pending[i].op = "handleSubmit"
    /\ LET log == IF i = Len(pending)
                  THEN <<Event("pipeline", data), Event("loading", Bool(FALSE))>>
                  ELSE <<Event("loading", Bool(FALSE))>>
       IN /\ SetApp(Notify(AppState, log))
          /\ last' = Step("handleSubmit", "resolved", NoBody, data, NoAnalysis,
                          NoRejection, pending[i].log \o log)
    /\ pending' = Remove(pending, i)
    /\ UNCHANGED formData

\* handleSubmit after the await: the request resolved
GenerateResolved(i, data) ==
    /\ i \in 1..Len(pending)
    /\ pending[i].op = "handleSubmit"
    /\ LET log == <<Event("pipeline", data), Event("loading", Bool(FALSE))>>
       IN /\ SetApp(Notify(AppState, log))
          /\ last' = Step("handleSubmit", "resolved", NoBody, data, NoAnalysis,
                          NoRejection, pending[i].log \o log)
    /\ pending' = Remove(pending, i)
    /\ UNCHANGED formData

\* variant: no finally block, the rejected path never releases loading
GenerateRejected_noFinally(i, err) ==
    /\ i \in 1..Len(pending)
    /\ pending[i].op = "handleSubmit"
    /\ LET log == <<Event("error", ErrorMessage(err, GenerateFallback))>>
       IN /\ SetApp(Notify(AppState, log))
          /\ last' = Step("handleSubmit", "rejected", NoBody, NoData, NoAnalysis,
                          err, pending[i].log \o log)
    /\ pending' = Remove(pending, i)
    /\ UNCHANGED formData

\* handleSubmit after the await: the request was rejected
GenerateRejected(i, err) ==
    /\ i \in 1..Len(pending)
    /\ pending[i].op = "handleSubmit"
    /\ LET log == <<Event("error", ErrorMessage(err, GenerateFallback)),
                    Event("loading", Bool(FALSE))>>
       IN /\ SetApp(Notify(AppState, log))
          /\ last' = Step("handleSubmit", "rejected", NoBody, NoData, NoAnalysis,
                          err, pending[i].log \o log)
    /\ pending' = Remove(pending, i)
    /\ UNCHANGED formData

\* variant: a field the response leaves out keeps its previous value
AnalyzeResolved_keepsPrevious(i, data) ==
    /\ i \in 1..Len(pending)
    /\ pending[i].op = "handleAnalyze"
    /\ formData' = [formData EXCEPT
                      !.language = IF Truthy(data.language) THEN OrEmpty(data.language) ELSE @,
                      !.framework = IF Truthy(data.framework) THEN OrEmpty(data.framework) ELSE @]
    /\ LET log == <<Event("setFormData", Undefined), Event("error", Null),
                    Event("loading", Bool(FALSE))>>
       IN /\ SetApp(Notify(AppState, log))
          /\ last' = Step("handleAnalyze", "resolved", NoBody, NoData, data,
                          NoRejection, pending[i].log \o log)
    /\ pending' = Remove(pending, i)

\* variant: the update spreads the initial state instead of prev
AnalyzeResolved_spreadsInitial(i, data) ==
    /\ i \in 1..Len(pending)
    /\ pending[i].op = "handleAnalyze"
    /\ formData' = [InitialFormData EXCEPT !.language = OrEmpty(data.language),
                                           !.framework = OrEmpty(data.framework)]
    /\ LET log == <<Event("setFormData", Undefined), Event("error", Null),
                    Event("loading", Bool(FALSE))>>
       IN /\ SetApp(Notify(AppState, log))
          /\ last' = Step("handleAnalyze", "resolved", NoBody, NoData, data,
                          NoRejection, pending[i].log \o log)
    /\ pending' = Remove(pending, i)

\* variant: a resolved analyze does not call onError(null)
AnalyzeResolved_noClear(i, data) ==
    /\ i \in 1..Len(pending)
    /\ pending[i].op = "handleAnalyze"
    /\ formData' = [formData EXCEPT !.language = OrEmpty(data.language),
                                    !.framework = OrEmpty(data.framework)]
    /\ LET log == <<Event("setFormData", Undefined), Event("loading", Bool(FALSE))>>
       IN /\ SetApp(Notify(AppState, log))
          /\ last' = Step("handleAnalyze", "resolved", NoBody, NoData, data,
                          NoRejection, pending[i].log \o log)
    /\ pending' = Remove(pending, i)

\* handleAnalyze after the await: the request resolved
AnalyzeResolved(i, data) ==
    /\ i \in 1..Len(pending)
    /\ pending[i].op = "handleAnalyze"
    /\ formData' = [formData EXCEPT !.language = OrEmpty(data.language),
                                    !.framework = OrEmpty(data.framework)]
    /\ LET log == <<Event("setFormData", Undefined), Event("error", Null),
                    Event("loading", Bool(FALSE))>>
       IN /\ SetApp(Notify(AppState, log))
          /\ last' = Step("handleAnalyze", "resolved", NoBody, NoData, data,
                          NoRejection, pending[i].log \o log)
    /\ pending' = Remove(pending, i)

\* variant: the catch block swallows the error
AnalyzeRejected_swallows(i, err) ==
    /\ i \in 1..Len(pending)
    /\ pending[i].op = "handleAnalyze"
    /\ LET log == <<Event("loading", Bool(FALSE))>>
       IN /\ SetApp(Notify(AppState, log))
          /\ last' = Step("handleAnalyze", "rejected", NoBody, NoData, NoAnalysis,
                          err, pending[i].log \o log)
    /\ pending' = Remove(pending, i)
    /\ UNCHANGED formData

\* handleAnalyze after the await: the request was rejected
AnalyzeRejected(i, err) ==
    /\ i \in 1..Len(pending)
    /\ pending[i].op = "handleAnalyze"
    /\ LET log == <<Event("error", ErrorMessage(err, AnalyzeFallback)),
                    Event("loading", Bool(FALSE))>>
       IN /\ SetApp(Notify(AppState, log))
          /\ last' = Step("handleAnalyze", "rejected", NoBody, NoData, NoAnalysis,
                          err, pending[i].log \o log)
    /\ pending' = Remove(pending, i)
    /\ UNCHANGED formData

Init ==
    /\ formData = InitialFormData
    /\ pipeline = Null
    /\ loading = Bool(FALSE)
    /\ error = Null
    /\ pending = <<>>
    /\ last = Step("none", "none", NoBody, NoData, NoAnalysis, NoRejection, <<>>)
    /\ view = AppRender(AppState)

Next ==
    \/ \E name \in FieldNames : \E value \in FieldValues(name) : handleChange(name, value)
    \/ handleSubmit
    \/ handleAnalyze
    \/ \E i \in 1..MaxPending : \E data \in PipelineDocs : GenerateResolved(i, data)
    \/ \E i \in 1..MaxPending : \E err \in Rejections : GenerateRejected(i, err)
    \/ \E i \in 1..MaxPending : \E data \in AnalysisResults : AnalyzeResolved(i, data)
    \/ \E i \in 1..MaxPending : \E err \in Rejections : AnalyzeRejected(i, err)

Spec == Init /\ [][Next]_vars

\* The program with a transport that settles every request it was given.
\* What a response carries has no influence on loading, so each way of
\* settling is taken with a few representative payloads, and the user
\* edits only the two fields the validation looks at.
SettlingFields == {"repository_url", "repository_content"}

SettlingAnalyses == {a \in AnalysisResults : a.framework = Undefined}

SettlingRejections == {r \in Rejections : r.response = "data" /\ r.message = Undefined}

\* a request that is outstanding settles: resolved or rejected
Settle ==
    \E i \in 1..MaxPending :
        \/ \E data \in PipelineDocs : GenerateResolved(i, data)
        \/ \E err \in SettlingRejections : GenerateRejected(i, err)
        \/ \E data \in SettlingAnalyses : AnalyzeResolved(i, data)
        \/ \E err \in SettlingRejections : AnalyzeRejected(i, err)

NextSettling ==
    \/ \E name \in SettlingFields : \E value \in FieldValues(name) : handleChange(name, value)
    \/ handleSubmit
    \/ handleAnalyze
    \/ Settle

SpecSettling == Init /\ [][NextSettling]_vars /\ WF_vars(Settle)

(***************************************************************************)
(* PipelineVisualizer.jsx                                                  *)
(*                                                                         *)
(* A type tag is a sequence of characters, so that the label can be        *)
(* computed from it character by character.  A pipeline document is an     *)
(* object with the fields stages, summary and recommendations, any of      *)
(* which may be undefined.                                                 *)
(***************************************************************************)
UnitTestBackend == <<"u", "n", "i", "t", "_", "t", "e", "s", "t", "_", "b", "a", "c", "k", "e", "n", "d">>
UnitTestFrontend == <<"u", "n", "i", "t", "_", "t", "e", "s", "t", "_", "f", "r", "o", "n", "t", "e", "n", "d">>
IntegrationTestBackend == <<"i", "n", "t", "e", "g", "r", "a", "t", "i", "o", "n", "_", "t", "e", "s", "t", "_", "b", "a", "c", "k", "e", "n", "d">>
IntegrationTestFrontend == <<"i", "n", "t", "e", "g", "r", "a", "t", "i", "o", "n", "_", "t", "e", "s", "t", "_", "f", "r", "o", "n", "t", "e", "n", "d">>
CodeQuality == <<"c", "o", "d", "e", "_", "q", "u", "a", "l", "i", "t", "y">>
PerformanceTest == <<"p", "e", "r", "f", "o", "r", "m", "a", "n", "c", "e", "_", "t", "e", "s", "t">>
SecurityTest == <<"s", "e", "c", "u", "r", "i", "t", "y", "_", "t", "e", "s", "t">>

\* the keys of the stageIcons literal
StageIconKeys ==
    {UnitTestBackend, UnitTestFrontend, IntegrationTestBackend,
     IntegrationTestFrontend, CodeQuality, PerformanceTest, SecurityTest}

\* stageIcons: one svg element per key
stageIcons == [key \in StageIconKeys |-> Element(key)]

\* what every object literal inherits from Object.prototype
ObjectPrototype ==
    [name \in {<<"c", "o", "n", "s", "t", "r", "u", "c", "t", "o", "r">>,
              <<"t", "o", "S", "t", "r", "i", "n", "g">>,
              <<"v", "a", "l", "u", "e", "O", "f">>,
              <<"h", "a", "s", "O", "w", "n", "P", "r", "o", "p", "e", "r", "t", "y">>,
              <<"_", "_", "p", "r", "o", "t", "o", "_", "_">>} |->
        IF name = <<"_", "_", "p", "r", "o", "t", "o", "_", "_">> THEN Obj(name) ELSE Fn(name)]

\* obj[key] on an object literal: own property, else inherited, else undefined
Get(obj, key) ==
    IF key \in DOMAIN obj THEN obj[key]
    ELSE IF key \in DOMAIN ObjectPrototype THEN ObjectPrototype[key]
    ELSE Undefined

\* variant: replace('_', ' '), which replaces the first underscore only
ReplaceUnderscores_firstOnly(type) ==
    [k \in 1..Len(type) |->
        IF type[k] = "_" /\ \A j \in 1..(k - 1) : type[j] # "_" THEN " " ELSE type[k]]

\* stage.type.replace(/_/g, ' ')
ReplaceUnderscores(type) ==
    [k \in 1..Len(type) |-> IF type[k] = "_" THEN " " ELSE type[k]]

\* <li key={index}>{item}</li>
ListItem(item) == [li |-> item]

\* array.map((item, index) => <li key={index}>{item}</li>)
ListItems(array) == [k \in 1..Len(array) |-> ListItem(array[k])]

\* a slot of the tree in which nothing is rendered
Nothing == [tag |-> "nothing"]

\* stageIcons[stage.type] || stageIcons.code_quality
StageIcon(stage) == Or(Get(stageIcons, stage.type), stageIcons[CodeQuality])

\* variant: the commands are listed under both headings
RenderStage_toolsFromCommands(stage) ==
    [icon |-> StageIcon(stage),
     name |-> stage.name,
     label |-> ReplaceUnderscores(stage.type),
     description |-> stage.description,
     commands |-> ListItems(stage.commands),
     tools |-> ListItems(stage.commands),
     duration |-> <<"Estimated Duration: ", stage.estimatedDuration>>]

\* one <div className="pipeline-stage">
RenderStage(stage) ==
    [icon |-> StageIcon(stage),
     name |-> stage.name,
     label |-> ReplaceUnderscores(stage.type),
     description |-> stage.description,
     commands |-> ListItems(stage.commands),
     tools |-> ListItems(stage.tools),
     duration |-> <<"Estimated Duration: ", stage.estimatedDuration>>]

\* pipeline.stages.map((stage, index) => <div key={index} ...>)
RenderStages(stages) == [k \in 1..Len(stages) |-> RenderStage(stages[k])]

\* variant: the list is rendered in reverse
RenderRecommendations_reversed(doc) ==
    IF Truthy(doc.recommendations) /\ Len(doc.recommendations.v) > 0
    THEN [tag |-> "recommendations", heading |-> "Recommendations",
          items |-> [k \in 1..Len(doc.recommendations.v) |->
                        ListItem(doc.recommendations.v[Len(doc.recommendations.v) + 1 - k])]]
    ELSE Nothing

\* pipeline.recommendations && pipeline.recommendations.length > 0 && (...)
RenderRecommendations(doc) ==
    IF Truthy(doc.recommendations) /\ Len(doc.recommendations.v) > 0
    THEN [tag |-> "recommendations", heading |-> "Recommendations",
          items |-> ListItems(doc.recommendations.v)]
    ELSE Nothing

\* variant: the section is rendered for every summary that is not null
RenderSummary_nullCheck(doc) ==
    IF doc.summary.t \notin {"null", "undefined"}
    THEN [tag |-> "summary", heading |-> "Pipeline Summary", text |-> doc.summary,
          recommendations |-> RenderRecommendations(doc)]
    ELSE Nothing

\* pipeline.summary && (<div className="summary-section"> ...)
RenderSummary(doc) ==
    IF Truthy(doc.summary)
    THEN [tag |-> "summary", heading |-> "Pipeline Summary", text |-> doc.summary,
          recommendations |-> RenderRecommendations(doc)]
    ELSE Nothing

\* what the component returns for no pipeline
RenderedNull == [tag |-> "null"]

\* variant: an empty stages array is treated like a missing one
PipelineVisualizer_emptyIsNull(doc) ==
    IF ~Truthy(doc) \/ ~Truthy(doc.stages) \/ Len(doc.stages.v) = 0 THEN RenderedNull
    ELSE [tag |-> "container", heading |-> "Generated Test Pipeline",
          stages |-> RenderStages(doc.stages.v),
          summary |-> RenderSummary(doc)]

\* variant: only the pipeline itself is tested
PipelineVisualizer_noStagesCheck(doc) ==
    IF ~Truthy(doc) THEN RenderedNull
    ELSE [tag |-> "container", heading |-> "Generated Test Pipeline",
          stages |-> IF Truthy(doc.stages) THEN RenderStages(doc.stages.v) ELSE <<>>,
          summary |-> RenderSummary(doc)]

\* PipelineVisualizer({ pipeline })
PipelineVisualizer(doc) ==
    IF ~Truthy(doc) \/ ~Truthy(doc.stages) THEN RenderedNull
    ELSE [tag |-> "container", heading |-> "Generated Test Pipeline",
          stages |-> RenderStages(doc.stages.v),
          summary |-> RenderSummary(doc)]

(***************************************************************************)
(* The renderer on its own: mounted once with a pipeline prop              *)
(***************************************************************************)
\* sequences over a set, up to a length
RECURSIVE SeqsUpTo(_, _)
SeqsUpTo(S, n) ==
    IF n = 0 THEN {<<>>}
    ELSE LET shorter == SeqsUpTo(S, n - 1)
         IN shorter \cup {Append(q, x) : q \in shorter, x \in S}

CustomType == <<"c", "u", "s", "t", "o", "m", "_", "t", "y", "p", "e">>
Constructor == <<"c", "o", "n", "s", "t", "r", "u", "c", "t", "o", "r">>

\* the type tags tried: the seven of the literal, two unknown ones, and
\* every short string over a three-letter alphabet
TypeTags ==
    StageIconKeys \cup {CustomType, Constructor} \cup SeqsUpTo({"a", "A", "_"}, MaxTypeLen)

StageOf(type, commands, tools) ==
    [name |-> "Stage", type |-> type, description |-> "Description",
     commands |-> commands, tools |-> tools, estimatedDuration |-> "5m"]

\* stages that differ in their type, and stages that differ in their lists
StageSamples ==
    {StageOf(type, <<"cmd1", "cmd2">>, <<"tool1">>) : type \in TypeTags}
    \cup
    {[StageOf(CodeQuality, commands, tools) EXCEPT !.name = "Quality", !.estimatedDuration = "8m"] :
        commands \in SeqsUpTo({"cmd1", "cmd2"}, MaxItems),
        tools \in SeqsUpTo({"tool1", "tool2"}, MaxItems)}

Document(stages, summary, recommendations) ==
    [t |-> "object", stages |-> stages, summary |-> summary,
     recommendations |-> recommendations]

Summaries == {Undefined, Null, Str(""), Str("Summary")}

Recommendations == {Undefined} \cup {Arr(list) : list \in SeqsUpTo({"rec1", "rec2"}, MaxItems)}

\* the stages put side by side in documents of several stages
OrderedSamples ==
    {StageOf(type, <<"cmd1", "cmd2">>, <<"tool1">>) :
        type \in StageIconKeys \cup {CustomType, Constructor, <<"A", "_">>}}
    \cup
    {[StageOf(CodeQuality, commands, tools) EXCEPT !.name = "Quality", !.estimatedDuration = "8m"] :
        commands \in {<<>>, <<"cmd2", "cmd1">>},
        tools \in {<<>>, <<"tool1", "tool2">>}}

\* the props tried: no pipeline; documents of one stage, for every sample;
\* documents of up to MaxStages stages; and documents of at most one stage,
\* or without stages, with every summary and every list of recommendations
PipelineProps ==
    {Null, Undefined}
    \cup {Document(Arr(<<stage>>), Undefined, Undefined) : stage \in StageSamples}
    \cup {Document(Arr(stages), Undefined, Undefined) : stages \in SeqsUpTo(OrderedSamples, MaxStages)}
    \cup {Document(stages, summary, recommendations) :
            stages \in {Undefined, Null, Arr(<<>>), Arr(<<StageOf(SecurityTest, <<"cmd1">>, <<>>)>>)},
            summary \in Summaries,
            recommendations \in Recommendations}

NotRendered == [tag |-> "unrendered"]

InitRender ==
    /\ pipeline \in PipelineProps
    /\ view = NotRendered
    /\ formData = InitialFormData
    /\ loading = Bool(FALSE)
    /\ error = Null
    /\ pending = <<>>
    /\ last = [op |-> "none", outcome |-> "none"]

\* the first render of <PipelineVisualizer pipeline={pipeline} />
Render ==
    /\ view = NotRendered
    /\ view' = PipelineVisualizer(pipeline)
    /\ UNCHANGED <<formData, pipeline, loading, error, pending, last>>

NextRender == Render

SpecRender == InitRender /\ [][NextRender]_vars

(***************************************************************************)
(* Properties                                                              *)
(***************************************************************************)
\* the calls a handler run made to one observer (or its POSTs), in order
Calls(log, ev) == SelectSeq(log, LAMBDA e : e.ev = ev)

\* the values of those calls
RECURSIVE Values(_)
Values(log) == IF log = <<>> THEN <<>> ELSE <<Head(log).val>> \o Values(Tail(log))

\* position of the first entry of a kind in a log, 0 when there is none
First(log, ev) ==
    IF \E k \in 1..Len(log) : log[k].ev = ev
    THEN CHOOSE k \in 1..Len(log) : log[k].ev = ev /\ \A j \in 1..(k - 1) : log[j].ev # ev
    ELSE 0

\* the step just taken is the synchronous part of handler op
Started(op) == last'.op = op /\ last'.outcome \in {"invalid", "posted"}

\* a string that is empty or consists only of whitespace
Blank(s) == s \in {"", " ", "  ", "\t", "\n"}

BothEmpty(fd) == fd.repository_url = "" /\ fd.repository_content = ""
BothBlank(fd) == Blank(fd.repository_url) /\ Blank(fd.repository_content)

\* the run reported a validation error and did nothing else
OnlyError(step, message) ==
    /\ step.outcome = "invalid"
    /\ step.log = <<Event("error", Str(message))>>

\* C1: whenever generate is submitted with repository_url and
\* repository_content both the empty string, the error observer is called
\* with exactly the generate validation message and no request is issued.
C1_GenerateEmptyRejected ==
    [][(BothEmpty(formData) /\ Started("handleSubmit"))
        => /\ OnlyError(last', "Please provide either a repository URL or code content")
           /\ pending' = pending]_vars

C1_Witness ==
    /\ last.op = "handleSubmit"
    /\ last.outcome = "invalid"
    /\ BothEmpty(formData)
    /\ formData.language # ""
    /\ formData.framework # ""

\* C2: whenever analyze is triggered with repository_url and
\* repository_content both the empty string, the error observer is called
\* with exactly the analyze validation message and no request is issued.
C2_AnalyzeEmptyRejected ==
    [][(BothEmpty(formData) /\ Started("handleAnalyze"))
        => /\ OnlyError(last', "Please provide either a repository URL or code content to analyze")
           /\ pending' = pending]_vars

C2_Witness ==
    /\ last.op = "handleAnalyze"
    /\ last.outcome = "invalid"
    /\ BothEmpty(formData)
    /\ formData.language # ""

\* C3: whenever generate or analyze is triggered with repository_url and
\* repository_content each empty or whitespace-only, the run fails with its
\* validation message and issues no request.
C3_BlankRejected ==
    [][(BothBlank(formData) /\ (Started("handleSubmit") \/ Started("handleAnalyze")))
        => /\ last'.outcome = "invalid"
           /\ Calls(last'.log, "post") = <<>>
           /\ pending' = pending]_vars

\* C4: a run that passed validation has notified the loading observer with
\* true, then posted; once its request has settled it has notified the
\* loading observer exactly twice, true before the POST and false after it,
\* as its last call, whether the request resolved or was rejected.
C4_LoadingTrueThenFalse ==
    /\ last.outcome = "posted"
        => /\ Values(Calls(last.log, "loading")) = <<Bool(TRUE)>>
           /\ First(last.log, "loading") < First(last.log, "post")
    /\ last.outcome \in {"resolved", "rejected"}
        => /\ Values(Calls(last.log, "loading")) = <<Bool(TRUE), Bool(FALSE)>>
           /\ First(last.log, "loading") < First(last.log, "post")
           /\ Len(Calls(last.log, "post")) = 1
           /\ last.log[Len(last.log)] = Event("loading", Bool(FALSE))

C4_Witness ==
    /\ last.op = "handleSubmit"
    /\ last.outcome = "rejected"
    /\ Len(Calls(last.log, "loading")) = 2

\* C5 as stated: every failed run, validation failure included, has called
\* the error observer exactly once and the loading observer with false.
C5_Original ==
    last.outcome \in {"invalid", "rejected"}
        => /\ Len(Calls(last.log, "error")) = 1
           /\ \E k \in 1..Len(last.log) : last.log[k] = Event("loading", Bool(FALSE))

\* C5: every failed run has called the error observer exactly once; a run
\* whose request was rejected has also called the loading observer with
\* false, and a run that failed validation has not called it at all.
C5_FailurePaths ==
    /\ last.outcome = "rejected"
        => /\ Len(Calls(last.log, "error")) = 1
           /\ \E k \in 1..Len(last.log) : last.log[k] = Event("loading", Bool(FALSE))
    /\ last.outcome = "invalid"
        => /\ Len(Calls(last.log, "error")) = 1
           /\ Calls(last.log, "loading") = <<>>

C5_Witness ==
    /\ last.outcome = "invalid"
    /\ Len(pending) > 0
    /\ loading = Bool(TRUE)

\* C6: a generate run whose request resolved has called the pipeline
\* observer exactly once, with the response body, and has not called the
\* error observer.
C6_GenerateSuccess ==
    (last.op = "handleSubmit" /\ last.outcome = "resolved")
        => /\ Calls(last.log, "pipeline") = <<Event("pipeline", last.data)>>
           /\ last.data \in PipelineDocs
           /\ Calls(last.log, "error") = <<>>

C6_Witness ==
    /\ last.op = "handleSubmit"
    /\ last.outcome = "resolved"
    /\ last.data = Obj("P2")

\* a value that is there: a non-empty string
Present(x) == x.t = "string" /\ x.v # ""

\* the message the resolution order asks for
Resolved(err, fallback) ==
    IF err.response = "data" /\ Present(err.detail) THEN err.detail
    ELSE IF Present(err.message) THEN err.message
    ELSE Str(fallback)

\* C7: the message a rejected run passes to the error observer is the
\* server's detail if present, else the transport message if present, else
\* the fallback of the operation.
C7_MessageResolution ==
    /\ (last.op = "handleSubmit" /\ last.outcome = "rejected")
        => Values(Calls(last.log, "error")) = <<Resolved(last.err, "Failed to generate pipeline")>>
    /\ (last.op = "handleAnalyze" /\ last.outcome = "rejected")
        => Values(Calls(last.log, "error")) = <<Resolved(last.err, "Failed to analyze repository")>>
    /\ (last.outcome = "rejected" /\ last.err.response = "data" /\ last.err.detail = Str("Not Found"))
        => error = Str("Not Found")

C7_Witness ==
    /\ last.op = "handleAnalyze"
    /\ last.outcome = "rejected"
    /\ last.err.detail = Str("Not Found")
    /\ last.err.message = Str("Network Error")

\* C8: whatever a request was rejected with, the value the error observer
\* receives is a non-empty string.
C8_NonEmptyMessage ==
    last.outcome = "rejected"
        => /\ Calls(last.log, "error") # <<>>
           /\ \A k \in 1..Len(last.log) :
                last.log[k].ev = "error" => Present(last.log[k].val)

C8_Witness ==
    /\ last.outcome = "rejected"
    /\ last.err.response = "data"
    /\ last.err.detail = Str("")
    /\ last.err.message = Str("")

\* what a field is set to from the response: its string, or '' when absent
FromResponse(x) == IF x.t = "string" THEN x.v ELSE ""

\* C9: the step in which an analyze request resolves leaves repository_url
\* and repository_content as they are at that moment and sets language and
\* framework from the response.
C9_AnalyzeFrame ==
    [][(last'.op = "handleAnalyze" /\ last'.outcome = "resolved")
        => /\ formData'.repository_url = formData.repository_url
           /\ formData'.repository_content = formData.repository_content
           /\ formData'.language = FromResponse(last'.analysis.language)
           /\ formData'.framework = FromResponse(last'.analysis.framework)]_vars

\* an analyze resolved on a form that could not have started it: both
\* inputs were emptied while the request was outstanding
C9_Witness ==
    /\ last.op = "handleAnalyze"
    /\ last.outcome = "resolved"
    /\ BothEmpty(formData)
    /\ formData.language = "py"

Changed == {f \in FieldNames : formData'[f] # formData[f]}

\* C10: a step changes formData only if it is a field edit, which changes
\* at most the edited field, or the resolution of an analyze request; every
\* other step leaves all four fields as they are.
C10_FormDataFrame ==
    [][/\ last'.op = "handleChange" => Cardinality(Changed) <= 1
       /\ Changed # {} =>
            \/ last'.op = "handleChange"
            \/ last'.op = "handleAnalyze" /\ last'.outcome = "resolved"]_vars

C10_Witness ==
    /\ last.op = "handleSubmit"
    /\ last.outcome = "resolved"
    /\ formData.repository_url = "u"
    /\ formData.language = "py"

\* the step that ran last reported an error: validation or rejected request
Failed == last.outcome \in {"invalid", "rejected"}

\* C11: a run of analyze whose request resolved has called the error
\* observer exactly once, with null, and has not called the pipeline
\* observer.
C11_AnalyzeSuccessClearsError ==
    (last.op = "handleAnalyze" /\ last.outcome = "resolved")
        => /\ Calls(last.log, "error") = <<Event("error", Null)>>
           /\ Calls(last.log, "pipeline") = <<>>
           /\ error = Null

\* an error was on display when the analyze request resolved
C11_Witness ==
    /\ last.op = "handleAnalyze"
    /\ last.outcome = "resolved"
    /\ last.before.error # Null
    /\ error = Null

\* C12: after any reported error (validation or rejected request, generate
\* or analyze) App holds the reported message as error and null as
\* pipeline, and shows the message and no pipeline.
C12_ErrorClearsPipeline ==
    Failed
        => /\ <<error>> = Values(Calls(last.log, "error"))
           /\ pipeline = Null
           /\ view.errorMessage = error
           /\ view.visualizer = Hidden

\* a validation error reported while a pipeline was on display
C12_Witness ==
    /\ last.op = "handleSubmit"
    /\ last.outcome = "invalid"
    /\ last.before.pipeline = Obj("P1")
    /\ last.before.loading = Bool(FALSE)

\* C13 as stated: when an analyze request is rejected while App holds a
\* pipeline from an earlier generate, the pipeline stays and the error is
\* shown.
C13_Original ==
    (last.op = "handleAnalyze" /\ last.outcome = "rejected" /\ last.before.pipeline # Null)
        => /\ pipeline = last.before.pipeline
           /\ error # Null

\* C13: when an analyze request is rejected while App holds a pipeline from
\* an earlier generate, the pipeline is cleared to null and is no longer
\* shown, and the error text from analyze is shown.
C13_AnalyzeFailureClearsPipeline ==
    (last.op = "handleAnalyze" /\ last.outcome = "rejected" /\ last.before.pipeline # Null)
        => /\ pipeline = Null
           /\ view.visualizer = Hidden
           /\ error # Null
           /\ view.errorMessage = error

C13_Witness ==
    /\ last.op = "handleAnalyze"
    /\ last.outcome = "rejected"
    /\ last.before.pipeline = Obj("P2")
    /\ error = Str("Failed to analyze repository")

\* C14: the visualizer is shown exactly when pipeline is non-null and
\* loading is false, and then with the stored pipeline as its prop; a
\* pipeline received by a generate run is not shown while loading is true
\* and is on display with exactly the received data once the run has
\* called the loading observer with false.
C14_VisualizerShown ==
    /\ view.visualizer # Hidden <=> (pipeline # Null /\ loading = Bool(FALSE))
    /\ view.visualizer # Hidden => view.visualizer = pipeline
    /\ (last.op = "handleSubmit" /\ last.outcome = "resolved")
        => view.visualizer = last.data

\* a pipeline is held but not shown, because loading is true
C14_Witness ==
    /\ pipeline = Obj("P1")
    /\ loading = Bool(TRUE)
    /\ view.visualizer = Hidden

\* C15: after a generate request resolved, App holds exactly the new
\* response as pipeline, whatever it held before, and null as error.
C15_GenerateReplacesPipeline ==
    (last.op = "handleSubmit" /\ last.outcome = "resolved")
        => /\ pipeline = last.data
           /\ error = Null

\* one pipeline replaced by another
C15_Witness ==
    /\ last.op = "handleSubmit"
    /\ last.outcome = "resolved"
    /\ last.before.pipeline = Obj("P1")
    /\ pipeline = Obj("P2")

(***************************************************************************)
(* Properties of the renderer, under SpecRender                            *)
(***************************************************************************)
Rendered == view # NotRendered

\* the prop is an object whose stages field holds an array
HasStages == pipeline.t = "object" /\ pipeline.stages.t = "array"

\* the stages of the prop, and the entries displayed for them
Stages == pipeline.stages.v
Entries == view.stages

\* C16: for a pipeline that is null or undefined, or that has no stages
\* field, the renderer returns null.
C16_NoPipelineRendersNull ==
    (Rendered /\ (pipeline.t \in {"null", "undefined"} \/ pipeline.stages = Undefined))
        => view = RenderedNull

\* a document with a summary and recommendations, but without stages
C16_Witness ==
    /\ view = RenderedNull
    /\ pipeline.t = "object"
    /\ pipeline.stages = Undefined
    /\ pipeline.summary = Str("Summary")
    /\ pipeline.recommendations = Arr(<<"rec1">>)

\* C17: for a document whose stages is the empty array and which has no
\* summary, the renderer returns the pipeline container, with no stage
\* entry and no summary section; it does not return null.
C17_EmptyStagesRendersContainer ==
    (Rendered /\ pipeline.t = "object" /\ pipeline.stages = Arr(<<>>)
              /\ pipeline.summary \in {Undefined, Null})
        => /\ view # RenderedNull
           /\ view.tag = "container"
           /\ Entries = <<>>
           /\ view.summary = Nothing

C17_Witness ==
    /\ view.tag = "container"
    /\ pipeline.stages = Arr(<<>>)
    /\ pipeline.summary = Undefined
    /\ pipeline.recommendations = Undefined
    /\ Entries = <<>>

\* the texts of a displayed list, in order
RECURSIVE Texts(_)
Texts(items) == IF items = <<>> THEN <<>> ELSE <<Head(items).li>> \o Texts(Tail(items))

\* C18: for a pipeline with stages the renderer returns one entry per
\* stage, in the order of the stages, and each entry shows the stage's
\* name and description, its commands and its tools verbatim and in their
\* order, and 'Estimated Duration: ' followed by estimatedDuration.
C18_StagesInOrder ==
    (Rendered /\ HasStages)
        => /\ view.tag = "container"
           /\ Len(Entries) = Len(Stages)
           /\ \A k \in 1..Len(Stages) :
                /\ Entries[k].name = Stages[k].name
                /\ Entries[k].description = Stages[k].description
                /\ Texts(Entries[k].commands) = Stages[k].commands
                /\ Texts(Entries[k].tools) = Stages[k].tools
                /\ Entries[k].duration = <<"Estimated Duration: ", Stages[k].estimatedDuration>>

\* two different stages, the first with two commands in a given order
C18_Witness ==
    /\ Rendered
    /\ HasStages
    /\ Len(Entries) = 2
    /\ Texts(Entries[1].commands) = <<"cmd2", "cmd1">>
    /\ Texts(Entries[1].tools) = <<"tool1", "tool2">>
    /\ Entries[2].name = "Stage"
    /\ Entries[2].duration = <<"Estimated Duration: ", "5m">>

\* C19: the icon of a stage is the icon of the literal for stage.type when
\* the type is one of the seven recognized tags, and the code_quality icon
\* for every other type string.
C19_IconMapping ==
    (Rendered /\ HasStages)
        => \A k \in 1..Len(Stages) :
             Entries[k].icon = IF Stages[k].type \in StageIconKeys
                               THEN Element(Stages[k].type)
                               ELSE Element(CodeQuality)

\* C20: the label of a stage is stage.type with every underscore replaced
\* by a space and nothing else changed: same length, every other character
\* as it is.
C20_LabelReplacesUnderscores ==
    (Rendered /\ HasStages)
        => \A k \in 1..Len(Stages) :
             /\ Len(Entries[k].label) = Len(Stages[k].type)
             /\ \A j \in 1..Len(Stages[k].type) :
                  Entries[k].label[j] = (IF Stages[k].type[j] = "_" THEN " " ELSE Stages[k].type[j])
             /\ Stages[k].type = CustomType => Entries[k].label = <<"c", "u", "s", "t", "o", "m", " ", "t", "y", "p", "e">>
             /\ Stages[k].type = UnitTestBackend => Entries[k].label = <<"u", "n", "i", "t", " ", "t", "e", "s", "t", " ", "b", "a", "c", "k", "e", "n", "d">>

\* a tag with two underscores, and one with an upper-case letter
C20_Witness ==
    /\ Rendered
    /\ HasStages
    /\ Len(Entries) = 2
    /\ Stages[1].type = UnitTestBackend
    /\ Entries[1].label = <<"u", "n", "i", "t", " ", "t", "e", "s", "t", " ", "b", "a", "c", "k", "e", "n", "d">>
    /\ Stages[2].type = <<"A", "_">>
    /\ Entries[2].label = <<"A", " ">>

\* the summary of the prop is a non-empty string
HasSummary == pipeline.summary.t = "string" /\ pipeline.summary.v # ""

\* the recommendations of the prop are a non-empty array
HasRecommendations ==
    pipeline.recommendations.t = "array" /\ pipeline.recommendations.v # <<>>

\* the recommendations are on display, as a list in the order of the prop
RecommendationsShown ==
    /\ view.summary.tag = "summary"
    /\ view.summary.recommendations.tag = "recommendations"
    /\ Texts(view.summary.recommendations.items) = pipeline.recommendations.v

\* C21: for a pipeline with stages the summary section is displayed if and
\* only if summary is a non-empty string (not null, undefined or ''), and
\* the section shows the summary text.
C21_SummaryShownIffPresent ==
    (Rendered /\ HasStages)
        => /\ view.summary.tag = "summary" <=> HasSummary
           /\ view.summary.tag # "summary" => view.summary = Nothing
           /\ view.summary.tag = "summary" => view.summary.text = pipeline.summary

\* an empty summary next to a stage: no section
C21_Witness ==
    /\ Rendered
    /\ HasStages
    /\ Len(Entries) = 1
    /\ pipeline.summary = Str("")
    /\ view.summary = Nothing

\* C22 as stated: for a pipeline with stages, non-empty recommendations are
\* displayed as a list in their order, whatever summary holds.
C22_Original ==
    (Rendered /\ HasStages /\ HasRecommendations) => RecommendationsShown

\* C22: for a pipeline with stages and a non-empty summary, non-empty
\* recommendations are displayed as a list in their order inside the
\* summary section; without a summary (absent, null or empty) neither the
\* section nor the recommendations are displayed.
C22_RecommendationsWithinSummary ==
    (Rendered /\ HasStages /\ HasRecommendations)
        => /\ HasSummary => RecommendationsShown
           /\ ~HasSummary => view.summary = Nothing

\* two recommendations on display, in their order
C22_Witness ==
    /\ Rendered
    /\ HasStages
    /\ HasSummary
    /\ pipeline.recommendations = Arr(<<"rec2", "rec1">>)
    /\ Texts(view.summary.recommendations.items) = <<"rec2", "rec1">>

(***************************************************************************)
(* Requests and their interleavings, under Spec                            *)
(***************************************************************************)
\* the step just taken is the continuation of handler op, its request resolved
ResolvedStep(op) == last'.op = op /\ last'.outcome = "resolved"

\* the endpoint of a handler
UrlOf(op) == IF op = "handleSubmit" THEN "/api/generate-pipeline" ELSE "/api/analyze-repository"

\* C23: every generate or analyze that passes validation issues exactly
\* one POST, to the URL of its operation, with the four fields as formData
\* holds them at that moment; the settling of a request, rejected or
\* resolved, issues no further request.
C23_OnePostWithFormData ==
    [][/\ \A op \in {"handleSubmit", "handleAnalyze"} :
            (Started(op) /\ ~MissingInput(formData))
                => /\ last'.outcome = "posted"
                   /\ Calls(last'.log, "post") = <<Event("post", Str(UrlOf(op)))>>
                   /\ DOMAIN last'.body = FieldNames
                   /\ last'.body = formData
                   /\ Len(pending') = Len(pending) + 1
       /\ last'.outcome \in {"resolved", "rejected"}
            => /\ Len(Calls(last'.log, "post")) = 1
               /\ Len(pending') = Len(pending) - 1]_vars

\* an analyze request posted with all four fields filled in
C23_Witness ==
    /\ last.op = "handleAnalyze"
    /\ last.outcome = "posted"
    /\ last.body = [repository_url |-> "u", repository_content |-> "c",
                    language |-> "py", framework |-> "dj"]
    /\ Len(pending) = 1

\* both outstanding requests are generate requests
TwoGenerates ==
    /\ Len(pending) = 2
    /\ pending[1].op = "handleSubmit"
    /\ pending[2].op = "handleSubmit"

\* one request is outstanding, and another has settled since it was issued
OneLeftOfTwo == Len(pending) = 1 /\ loading = Bool(FALSE)

\* C24: a second generate is accepted while one is outstanding; whichever
\* of two overlapping generate requests resolves, and whether it resolves
\* first or second, App then holds its response as pipeline, so after both
\* the pipeline is the response that arrived last.
C24_LastArrivalWins ==
    [][/\ (Len(pending) = 1 /\ pending[1].op = "handleSubmit"
            /\ Started("handleSubmit") /\ ~MissingInput(formData))
            => /\ last'.outcome = "posted"
               /\ TwoGenerates'
       /\ (ResolvedStep("handleSubmit")
            /\ (TwoGenerates \/ (OneLeftOfTwo /\ pipeline # Null)))
            => /\ pipeline' = last'.data
               /\ view'.visualizer = last'.data]_vars

\* the second of two overlapping generates resolved after the first
C24_Witness ==
    /\ last.op = "handleSubmit"
    /\ last.outcome = "resolved"
    /\ pending = <<>>
    /\ last.before.loading = Bool(FALSE)
    /\ last.before.pipeline = Obj("P1")
    /\ pipeline = Obj("P2")
    /\ view.visualizer = Obj("P2")

\* C25: when an analyze and a generate request are outstanding together
\* and both resolve, then after the second of them App holds the generate
\* response as pipeline and formData holds the language and framework of
\* the analyze response, in either order of completion.
C25_IndependentConcerns ==
    [][/\ (OneLeftOfTwo /\ pending[1].op = "handleAnalyze" /\ pipeline # Null
            /\ ResolvedStep("handleAnalyze"))
            => /\ pipeline' = pipeline
               /\ formData'.language = FromResponse(last'.analysis.language)
               /\ formData'.framework = FromResponse(last'.analysis.framework)
       /\ (OneLeftOfTwo /\ pending[1].op = "handleSubmit"
            /\ last.op = "handleAnalyze" /\ last.outcome = "resolved"
            /\ ResolvedStep("handleSubmit"))
            => /\ pipeline' = last'.data
               /\ formData'.language = FromResponse(last.analysis.language)
               /\ formData'.framework = FromResponse(last.analysis.framework)]_vars

\* C27: in no state does App hold both a pipeline and an error.
C27_PipelineOrError ==
    /\ ~(pipeline # Null /\ error # Null)
    /\ ~(view.visualizer # Hidden /\ view.errorMessage # Hidden)

\* a pipeline took the place of a reported error
C27_Witness ==
    /\ last.op = "handleSubmit"
    /\ last.outcome = "resolved"
    /\ last.before.error = Str("Not Found")
    /\ pipeline = Obj("P1")
    /\ error = Null

\* C28 as stated: loading is true in every state in which a request is
\* outstanding, and no pipeline is shown in such a state.
C28_Original ==
    Len(pending) > 0
        => /\ loading = Bool(TRUE)
           /\ view.visualizer = Hidden

\* C28: loading is true from the issue of a request until the next
\* settling of any request: issuing a request sets it to true and hides
\* the pipeline, the settling of any request sets it to false even if
\* another request is still outstanding, and no other step changes it.
C28_LoadingFollowsLastRequestEvent ==
    [][/\ last'.outcome = "posted"
            => /\ loading' = Bool(TRUE)
               /\ view'.visualizer = Hidden
       /\ last'.outcome \in {"resolved", "rejected"}
            => /\ loading' = Bool(FALSE)
               /\ view'.loadingCard = FALSE
       /\ last'.outcome \in {"edited", "invalid"}
            => loading' = loading]_vars

\* a pipeline on display while a request is outstanding
C28_Witness ==
    /\ Len(pending) = 1
    /\ loading = Bool(FALSE)
    /\ view.loadingCard = FALSE
    /\ view.visualizer = Obj("P1")

\* C29: when an analyze request resolves with a response in which language
\* or framework is missing or empty, that field of formData becomes '',
\* whatever the user had put there.
C29_MissingFieldBecomesEmpty ==
    [][ResolvedStep("handleAnalyze")
        => /\ ~Present(last'.analysis.language) => formData'.language = ""
           /\ ~Present(last'.analysis.framework) => formData'.framework = ""
           /\ \A f \in {"language", "framework"} :
                (formData[f] # "" /\ ~Present(last'.analysis[f])) => f \in Changed]_vars

\* language left out by the response, framework given
C29_Witness ==
    /\ last.op = "handleAnalyze"
    /\ last.outcome = "resolved"
    /\ last.analysis.language = Undefined
    /\ last.analysis.framework = Str("dj")
    /\ formData.language = ""
    /\ formData.framework = "dj"

\* the step just taken notified the error observer
ErrorNotified ==
    \/ last'.outcome \in {"invalid", "rejected"}
    \/ ResolvedStep("handleAnalyze")

\* C30: every step that notifies the error observer, the null notification
\* of a resolved analyze included, leaves pipeline null and no pipeline on
\* display; pipeline changes to a non-null value only in the step in which
\* a generate request resolves.
C30_ErrorNotificationClearsPipeline ==
    [][/\ ErrorNotified
            => /\ Calls(last'.log, "error") # <<>>
               /\ pipeline' = Null
               /\ view'.visualizer = Hidden
       /\ (pipeline' # pipeline /\ pipeline' # Null)
            => /\ ResolvedStep("handleSubmit")
               /\ pipeline' = last'.data]_vars

\* a resolved analyze removed the pipeline on display
C30_Witness ==
    /\ last.op = "handleAnalyze"
    /\ last.outcome = "resolved"
    /\ last.before.pipeline = Obj("P2")
    /\ last.before.loading = Bool(FALSE)
    /\ pipeline = Null
    /\ error = Null

\* C26: when every request that was issued eventually settles, loading,
\* once true, eventually becomes false, whatever actions and settlings
\* come in between; and loading is false in every state in which no
\* request is outstanding.
C26_LoadingReleased ==
    /\ [](pending = <<>> => (loading = Bool(FALSE) /\ view.loadingCard = FALSE))
    /\ (loading = Bool(TRUE)) ~> (loading = Bool(FALSE))

\* the second of two overlapping requests was rejected: nothing is
\* outstanding and loading is off
C26_Witness ==
    /\ last.outcome = "rejected"
    /\ pending = <<>>
    /\ last.before.loading = Bool(FALSE)
    /\ last.before.error # Null
    /\ loading = Bool(FALSE)

====
